---- MODULE Spec2Model ----
(***************************************************************************)
(* A model of searcher.py: the SearchRequest record and its date-pair      *)
(* validation, the two search executors (search_offers, search_cheapest),  *)
(* the date-range generator and the driver do_search with its two search   *)
(* functors and the last_search output directory.                          *)
(*                                                                         *)
(* Encodings.  A date string "Y-M-D" is the tuple of its '-'-separated     *)
(* integer parts; the empty string is <<>>; str(n) is <<n>>.  None is      *)
(* <<>> where an optional integer is expected (max_price).                 *)
(***************************************************************************)
EXTENDS Integers, Sequences, FiniteSets, TLC

\* ------------------------------------------------------------------------
\* Bounds of the model
\* ------------------------------------------------------------------------
MaxPairs == 3
MaxRows == 2
MaxDest == 2
MaxDays == 3

\* ------------------------------------------------------------------------
\* datetime.date as used by the script: construction from parts,
\* subtraction of two dates, addition of whole days
\* ------------------------------------------------------------------------
IsLeap(y) == y % 4 = 0 /\ (y % 100 # 0 \/ y % 400 = 0)

DAYS_IN_MONTH == <<31, 28, 31, 30, 31, 30, 31, 31, 30, 31, 30, 31>>

DAYS_BEFORE_MONTH == <<0, 31, 59, 90, 120, 151, 181, 212, 243, 273, 304, 334>>

DaysInMonth(y, m) == IF m = 2 /\ IsLeap(y) THEN 29 ELSE DAYS_IN_MONTH[m]

DaysBeforeYear(y) ==
    (y - 1) * 365 + ((y - 1) \div 4) - ((y - 1) \div 100) + ((y - 1) \div 400)

DaysBeforeMonth(y, m) ==
    DAYS_BEFORE_MONTH[m] + (IF m > 2 /\ IsLeap(y) THEN 1 ELSE 0)

\* datetime.date(*[int(p) for p in s.split('-')]) succeeds
ValidDate(s) ==
    /\ Len(s) = 3
    /\ s[1] >= 1 /\ s[1] <= 9999
    /\ s[2] >= 1 /\ s[2] <= 12
    /\ s[3] >= 1 /\ s[3] <= DaysInMonth(s[1], s[2])

\* date.toordinal()
ToOrdinal(s) == DaysBeforeYear(s[1]) + DaysBeforeMonth(s[1], s[2]) + s[3]

\* date.fromordinal(n), the proleptic Gregorian decomposition
FromOrdinal(n0) ==
    LET n1   == n0 - 1
        n400 == n1 \div 146097
        r400 == n1 % 146097
        n100 == r400 \div 36524
        r100 == r400 % 36524
        n4   == r100 \div 1461
        r4   == r100 % 1461
        n1y  == r4 \div 365
        n    == r4 % 365
        year == n400 * 400 + 1 + n100 * 100 + n4 * 4 + n1y
    IN  IF n1y = 4 \/ n100 = 4
        THEN <<year - 1, 12, 31>>
        ELSE LET leap  == n1y = 3 /\ (n4 # 24 \/ n100 = 3)
                 m0    == (n + 50) \div 32
                 prec0 == DAYS_BEFORE_MONTH[m0] + (IF m0 > 2 /\ leap THEN 1 ELSE 0)
                 month == IF prec0 > n THEN m0 - 1 ELSE m0
                 prec  == IF prec0 > n
                          THEN prec0 - (DAYS_IN_MONTH[month]
                                        + (IF month = 2 /\ leap THEN 1 ELSE 0))
                          ELSE prec0
             IN  <<year, month, n - prec + 1>>

\* the largest ordinal a date can hold (9999-12-31)
MaxOrdinal == ToOrdinal(<<9999, 12, 31>>)

\* ------------------------------------------------------------------------
\* _calculate_duration
\* ------------------------------------------------------------------------
\* the value returned: the day difference, or the sentinel 0
_calculate_duration(departure_date, return_date) ==
    IF ~(ValidDate(departure_date) /\ ValidDate(return_date))
    THEN 0
    ELSE LET duration == ToOrdinal(return_date) - ToOrdinal(departure_date)
         IN  IF duration <= 0 THEN 0 ELSE duration

\* ------------------------------------------------------------------------
\* SearchRequest.__post_init__
\* ------------------------------------------------------------------------
None == <<>>

\* The loop over flight_dates.  acc carries the three locals of the method,
\* the number of lines printed to stderr and whether ValueError was raised.
RECURSIVE PostInitLoop(_, _)
PostInitLoop(pairs, acc) ==
    IF pairs = <<>> THEN acc
    ELSE LET departure_date == Head(pairs)[1]
             return_date    == Head(pairs)[2]
         IN  IF return_date = <<>>
             THEN PostInitLoop(Tail(pairs),
                    [acc EXCEPT !.search_one_way_flights = TRUE,
                                !.flight_date_durations =
                                    Append(@, <<departure_date, <<>>>>)])
             ELSE LET duration == _calculate_duration(departure_date, return_date)
                  IN  IF duration = 0
                      THEN [acc EXCEPT !.search_return_flights = TRUE,
                                       !.stderr = @ + 1,
                                       !.raised = TRUE]
                      ELSE PostInitLoop(Tail(pairs),
                             [acc EXCEPT !.search_return_flights = TRUE,
                                         !.flight_date_durations =
                                             Append(@, <<departure_date, <<duration>>>>)])

\* The object after construction; raised = TRUE means the constructor threw
\* ValueError and no object exists.
PostInit(flight_dates) ==
    PostInitLoop(flight_dates,
        [raised |-> FALSE,
         search_one_way_flights |-> FALSE,
         search_return_flights |-> FALSE,
         flight_date_durations |-> <<>>,
         stderr |-> 0])

\* ------------------------------------------------------------------------
\* search_offers: the handling of one response
\* ------------------------------------------------------------------------
\* truth value of "search_request.max_price" in a condition
MaxPriceSet(max_price) == max_price # None /\ max_price[1] # 0

SearchResult(entry) == [price |-> entry.grandTotal, raw_entry |-> entry]

\* the for loop over raw_result['data'] with its break
RECURSIVE TakeEntries(_, _)
TakeEntries(data, max_price) ==
    IF data = <<>> THEN <<>>
    ELSE IF MaxPriceSet(max_price) /\ Head(data).grandTotal > max_price[1]
         THEN <<>>
         ELSE <<SearchResult(Head(data))>> \o TakeEntries(Tail(data), max_price)

\* a body without 'data' ends the search with the empty list
OffersAfterResponse_mut(search_results, response, max_price) ==
    IF response.kind = "nodata"
    THEN <<>>
    ELSE search_results \o TakeEntries(response.data, max_price)

\* search_results after the response to one date pair has been handled
OffersAfterResponse(search_results, response, max_price) ==
    IF response.kind = "nodata"
    THEN search_results
    ELSE search_results \o TakeEntries(response.data, max_price)

\* ------------------------------------------------------------------------
\* search_cheapest
\* ------------------------------------------------------------------------
\* the test for a mixed batch inverted on the one-way flag
CheapestRejects_mut(obj) == obj.search_return_flights /\ ~obj.search_one_way_flights

CheapestRejects(obj) == obj.search_return_flights /\ obj.search_one_way_flights

RECURSIVE CheapestEntries(_)
CheapestEntries(data) ==
    IF data = <<>> THEN <<>>
    ELSE <<SearchResult(Head(data))>> \o CheapestEntries(Tail(data))

\* [results, calls, stderr]: the list returned, the number of GET requests
\* issued to the calendar endpoint and the lines printed to stderr
search_cheapest(obj, response) ==
    IF CheapestRejects(obj)
    THEN [results |-> <<>>, calls |-> 0, stderr |-> 1]
    ELSE IF response.kind = "nodata"
         THEN [results |-> <<>>, calls |-> 1, stderr |-> 0]
         ELSE [results |-> CheapestEntries(response.data), calls |-> 1, stderr |-> 0]

\* ------------------------------------------------------------------------
\* _date_range
\* ------------------------------------------------------------------------
\* range(1, day_count + 1) in place of range(0, day_count)
_date_range_mut(start_date, day_count) ==
    IF ~ValidDate(start_date)
    THEN [raised |-> FALSE, dates |-> <<>>, stderr |-> 1]
    ELSE [raised |-> FALSE,
          dates |-> [i \in 1..day_count |-> FromOrdinal(ToOrdinal(start_date) + i)],
          stderr |-> 0]

\* [raised, dates]: base_dt + i * one_day overflows past 9999-12-31
_date_range(start_date, day_count) ==
    IF ~ValidDate(start_date)
    THEN [raised |-> FALSE, dates |-> <<>>, stderr |-> 1]
    ELSE IF day_count > 0 /\ ToOrdinal(start_date) + day_count - 1 > MaxOrdinal
         THEN [raised |-> TRUE, dates |-> <<>>, stderr |-> 0]
         ELSE [raised |-> FALSE,
               dates |-> [i \in 1..day_count |->
                             FromOrdinal(ToOrdinal(start_date) + (i - 1))],
               stderr |-> 0]

\* ------------------------------------------------------------------------
\* Inputs of the search executors when they are exercised on their own
\* ------------------------------------------------------------------------
D1 == <<2024, 2, 28>>
D2 == <<2024, 3, 1>>
BadDate == <<2024, 2, 30>>

\* (departure, return-or-empty) pairs: one-way, round trip, return before
\* departure, return equal to departure, return not a calendar date
PairSet ==
    { <<D1, <<>>>>, <<D2, <<>>>>, <<D1, D2>>, <<D2, D1>>, <<D1, D1>>, <<D1, BadDate>> }

RECURSIVE SeqsUpTo(_, _)
SeqsUpTo(S, n) ==
    IF n = 0 THEN { <<>> }
    ELSE LET shorter == SeqsUpTo(S, n - 1)
         IN  shorter \cup { Append(s, x) : s \in shorter, x \in S }

MaxPrices == { None, <<0>>, <<4>>, <<10>> }

Entry(id, grandTotal) == [id |-> id, grandTotal |-> grandTotal]

\* what requests.get(...).json() can be: a body without 'data', a body with
\* a 'data' list, or no body at all because the call raised
OfferResponses ==
    { [kind |-> "nodata", data |-> <<>>],
      [kind |-> "raise", data |-> <<>>],
      [kind |-> "data", data |-> <<>>],
      [kind |-> "data", data |-> <<Entry(1, 5), Entry(2, 10), Entry(3, 20)>>],
      [kind |-> "data", data |-> <<Entry(4, 20), Entry(5, 5)>>] }

\* ------------------------------------------------------------------------
\* State
\* ------------------------------------------------------------------------
VARIABLES
    \* a search executor exercised on one SearchRequest
    flight_dates,    \* SearchRequest.flight_dates, in iteration order
    max_price,       \* SearchRequest.max_price
    obj,             \* the attributes __post_init__ sets
    spc,             \* "new", "built", "raised", "offers", "offers_done",
                     \* "cheapest_done", "offers_failed",
                     \* "cheapest_failed"
    si,              \* index of the next date pair of search_offers
    search_results,  \* the list the executor builds or returned
    got,             \* the responses received so far, one per request issued
    calls,           \* the number of GET requests issued
    stderr,          \* the number of lines printed to stderr
    \* one invocation of the script after another in one working directory
    pc,              \* position of the running invocation
    mode,            \* "batch" or "one_way"
    csv,             \* the rows of the request file (batch)
    args,            \* start_date, duration, destinations (one_way)
    token,           \* the value of the local variable token
    fetches,         \* the number of auth() calls of this invocation
    date_range,      \* the list _date_range returned
    order,           \* the iteration order of the flight_dates set
    k,               \* index of the next row or destination of the functor
    cur,             \* the request being searched
    ci,              \* index of its next date pair
    cres,            \* search_results of the search in progress
    answer,          \* the kind of body the endpoint answers this request with
    result,          \* the dict the functor builds, in insertion order
    todo,            \* index of the next item of result to print and write
    counters,        \* the dict counters of do_search
    dir,             \* whether last_search exists
    fs,              \* the files in last_search
    gets,            \* the GET requests issued by this invocation
    searched,        \* the searches completed by this invocation
    written,         \* the file names written by this invocation
    prev,            \* whether the previous invocation completed and wrote files
    crashAt          \* where this invocation raised, "" if it has not

svars == <<flight_dates, max_price, obj, spc, si, search_results, got, calls, stderr>>

dvars == <<pc, mode, csv, args, token, fetches, date_range, order, k, cur, ci, cres, answer,
           result, todo, counters, dir, fs, gets, searched, written, prev, crashAt>>

vars == <<svars, dvars>>

NoObj ==
    [raised |-> FALSE, search_one_way_flights |-> FALSE,
     search_return_flights |-> FALSE, flight_date_durations |-> <<>>, stderr |-> 0]

\* ------------------------------------------------------------------------
\* The search executors on one request
\* ------------------------------------------------------------------------
SearchIdle ==
    /\ flight_dates = <<>> /\ max_price = None /\ obj = NoObj /\ spc = "off"
    /\ si = 1 /\ search_results = <<>> /\ got = <<>> /\ calls = 0 /\ stderr = 0

DriverIdle ==
    /\ pc = "off" /\ mode = "none" /\ csv = <<>> /\ args = <<>> /\ token = 0
    /\ fetches = 0 /\ date_range = <<>> /\ order = <<>> /\ k = 1 /\ cur = <<>>
    /\ ci = 1 /\ cres = <<>> /\ answer = "" /\ result = <<>> /\ todo = 1
    /\ counters = <<>> /\ dir = FALSE /\ fs = {} /\ gets = <<>> /\ searched = <<>>
    /\ written = {} /\ prev = FALSE /\ crashAt = ""

InitSearch ==
    /\ flight_dates \in SeqsUpTo(PairSet, MaxPairs)
    /\ max_price \in MaxPrices
    /\ obj = NoObj /\ spc = "new" /\ si = 1 /\ search_results = <<>>
    /\ got = <<>> /\ calls = 0 /\ stderr = 0
    /\ DriverIdle

\* SearchRequest(flight_dates=..., max_price=...)
Construct ==
    /\ spc = "new"
    /\ obj' = PostInit(flight_dates)
    /\ spc' = IF PostInit(flight_dates).raised THEN "raised" ELSE "built"
    /\ stderr' = stderr + PostInit(flight_dates).stderr
    /\ UNCHANGED <<flight_dates, max_price, si, search_results, got, calls>>
    /\ UNCHANGED dvars

\* search_offers: one turn of the loop over flight_dates, the GET included
OffersGet ==
    /\ spc \in {"built", "offers"}
    /\ si <= Len(flight_dates)
    /\ \E response \in OfferResponses :
          /\ calls' = calls + 1
          /\ got' = Append(got, response)
          /\ IF response.kind = "raise"
             THEN /\ spc' = "offers_failed"
                  /\ UNCHANGED <<si, search_results>>
             ELSE /\ spc' = "offers"
                  /\ si' = si + 1
                  /\ search_results' =
                        OffersAfterResponse(search_results, response, max_price)
    /\ UNCHANGED <<flight_dates, max_price, obj, stderr>>
    /\ UNCHANGED dvars

\* search_offers: the loop is over, the list is returned
OffersReturn ==
    /\ spc \in {"built", "offers"}
    /\ si > Len(flight_dates)
    /\ spc' = "offers_done"
    /\ UNCHANGED <<flight_dates, max_price, obj, si, search_results, got, calls, stderr>>
    /\ UNCHANGED dvars

\* search_cheapest, whole
Cheapest ==
    /\ spc = "built"
    /\ \E response \in OfferResponses :
          IF ~CheapestRejects(obj) /\ response.kind = "raise"
          THEN /\ spc' = "cheapest_failed"
               /\ calls' = calls + 1
               /\ got' = Append(got, response)
               /\ UNCHANGED <<search_results, stderr>>
          ELSE /\ spc' = "cheapest_done"
               /\ search_results' = search_cheapest(obj, response).results
               /\ calls' = calls + search_cheapest(obj, response).calls
               /\ stderr' = stderr + search_cheapest(obj, response).stderr
               /\ got' = IF search_cheapest(obj, response).calls = 1
                         THEN Append(got, response) ELSE got
    /\ UNCHANGED <<flight_dates, max_price, obj, si>>
    /\ UNCHANGED dvars

NextSearch == Construct \/ OffersGet \/ OffersReturn \/ Cheapest

SpecSearch == InitSearch /\ [][NextSearch]_vars

\* ------------------------------------------------------------------------
\* Inputs of the driver
\* ------------------------------------------------------------------------
Origin == "AAA"

Destinations == { "BBB", "CCC" }

\* --date values: around a year end, a leap and a non-leap February and the
\* last days a date can hold; the last is not a calendar date
StartDates ==
    { <<2024, 1, 1>>, <<2024, 2, 28>>, <<2023, 2, 27>>, <<2023, 12, 30>>,
      <<9999, 12, 30>>, BadDate }

\* rows csv.reader yields: one-way, the same pair on another date, round
\* trip, return before departure, a row with two columns only
CsvRows ==
    { <<"AAA", "BBB", D1, <<>>>>, <<"AAA", "BBB", D2, <<>>>>, <<"AAA", "CCC", D1, D2>>,
      <<"AAA", "BBB", D2, D1>>, <<"AAA", "BBB">> }

\* What requests.get(...).json() can be for one query of the driver: the
\* call raises, or the body is of the kind the endpoint answers this request
\* with: without 'data', or with one offer for the route and date asked.
DriverResponses(kind, flight_to, departure_date) ==
    { [kind |-> "raise", data |-> <<>>],
      IF kind = "data"
      THEN [kind |-> "data", data |-> <<Entry(<<flight_to, departure_date>>, 5)>>]
      ELSE [kind |-> "nodata", data |-> <<>>] }

NoArgs == [start_date |-> <<>>, duration |-> 0, destinations |-> <<>>]

NoReq == [flight_from |-> "", flight_to |-> "", flight_dates |-> <<>>]

\* the orders in which a set of n elements can be iterated
Perms(n) == { f \in [1..n -> 1..n] : \A a, b \in 1..n : f[a] = f[b] => a = b }

\* ------------------------------------------------------------------------
\* dict, kept in insertion order: a sequence of [key, val]
\* ------------------------------------------------------------------------
DictHas(d, key) == \E j \in 1..Len(d) : d[j].key = key

DictGet(d, key, default) ==
    IF DictHas(d, key)
    THEN (CHOOSE item \in { d[j] : j \in 1..Len(d) } : item.key = key).val
    ELSE default

DictSet(d, key, val) ==
    IF DictHas(d, key)
    THEN [j \in 1..Len(d) |-> IF d[j].key = key THEN [key |-> key, val |-> val] ELSE d[j]]
    ELSE Append(d, [key |-> key, val |-> val])

\* what __eq__ of the dataclass compares: flight_dates is a set in both
\* functors (pax_count, max_result_count and max_price keep their defaults)
RequestKey(req) ==
    [flight_from |-> req.flight_from, flight_to |-> req.flight_to,
     flight_dates |-> { req.flight_dates[j] : j \in 1..Len(req.flight_dates) }]

\* f'{request.flight_from}-{request.flight_to}-{counters[request]}.json'
FileName(key, counter) == <<key.flight_from, key.flight_to, counter>>

\* json.dumps([o.raw_entry for o in offers])
RawEntries(offers) == [j \in 1..Len(offers) |-> offers[j].raw_entry]

\* ------------------------------------------------------------------------
\* The driver
\* ------------------------------------------------------------------------
Init ==
    /\ pc = "idle" /\ mode = "none" /\ csv = <<>> /\ args = NoArgs /\ token = 0
    /\ fetches = 0 /\ date_range = <<>> /\ order = <<>> /\ k = 1 /\ cur = NoReq
    /\ ci = 1 /\ cres = <<>> /\ answer = "" /\ result = <<>> /\ todo = 1
    /\ counters = <<>> /\ dir = FALSE /\ fs = {} /\ gets = <<>> /\ searched = <<>>
    /\ written = {} /\ prev = FALSE /\ crashAt = ""
    /\ SearchIdle

\* main() starts a new process and calls do_search; the files of the
\* directory stay.  The command line is read where the functor first uses it.
Start ==
    /\ pc = "idle"
    /\ pc' = "auth"
    /\ fs' = { [f EXCEPT !.stale = TRUE] : f \in fs }
    /\ UNCHANGED <<mode, csv, args, token, fetches, date_range, order, k, cur, ci, cres,
                   answer, result, todo, counters, dir, gets, searched, written, prev,
                   crashAt>>
    /\ UNCHANGED svars

\* do_search: token = auth()
AuthOk ==
    /\ pc = "auth"
    /\ fetches' = fetches + 1
    /\ token' = fetches + 1
    /\ pc' = "recreate"
    /\ UNCHANGED <<mode, csv, args, date_range, order, k, cur, ci, cres, answer, result,
                   todo, counters, dir, fs, gets, searched, written, prev, crashAt>>
    /\ UNCHANGED svars

AuthFails ==
    /\ pc = "auth"
    /\ pc' = "crashed"
    /\ crashAt' = "auth"
    /\ UNCHANGED <<mode, csv, args, token, fetches, date_range, order, k, cur, ci, cres,
                   answer, result, todo, counters, dir, fs, gets, searched, written, prev>>
    /\ UNCHANGED svars

\* the directory is made when missing and never removed
RecreateDir_mut ==
    /\ pc = "recreate"
    /\ dir' = TRUE
    /\ pc' = "functor"
    /\ UNCHANGED <<mode, csv, args, token, fetches, date_range, order, k, cur, ci, cres,
                   answer, result, todo, counters, fs, gets, searched, written, prev,
                   crashAt>>
    /\ UNCHANGED svars

\* do_search: the directory is removed if it is there, and made
RecreateDir ==
    /\ pc = "recreate"
    /\ fs' = {}
    /\ dir' = TRUE
    /\ pc' = "functor"
    /\ UNCHANGED <<mode, csv, args, token, fetches, date_range, order, k, cur, ci, cres,
                   answer, result, todo, counters, gets, searched, written, prev, crashAt>>
    /\ UNCHANGED svars

\* do_search calls _do_search_by_data_from_file, which opens the request file
CallBatch ==
    /\ pc = "functor"
    /\ \E c \in SeqsUpTo(CsvRows, MaxRows) : csv' = c
    /\ mode' = "batch"
    /\ pc' = "loop"
    /\ UNCHANGED <<args, token, fetches, date_range, order, k, cur, ci, cres, answer,
                   result, todo, counters, dir, fs, gets, searched, written, prev,
                   crashAt>>
    /\ UNCHANGED svars

\* do_search calls _do_search_one_way with the command line's values
CallOneWay ==
    /\ pc = "functor"
    /\ \E start_date \in StartDates, duration \in 0..MaxDays,
          destinations \in SeqsUpTo(Destinations, MaxDest) \ { <<>> } :
            args' = [start_date |-> start_date, duration |-> duration,
                     destinations |-> destinations]
    /\ mode' = "one_way"
    /\ pc' = "helper_auth"
    /\ UNCHANGED <<csv, token, fetches, date_range, order, k, cur, ci, cres, answer,
                   result, todo, counters, dir, fs, gets, searched, written, prev,
                   crashAt>>
    /\ UNCHANGED svars

\* the helper uses the token it was passed
HelperAuthOk_mut ==
    /\ pc = "helper_auth"
    /\ pc' = "date_range"
    /\ UNCHANGED <<mode, csv, args, token, fetches, date_range, order, k, cur, ci, cres,
                   answer, result, todo, counters, dir, fs, gets, searched, written,
                   prev, crashAt>>
    /\ UNCHANGED svars

\* _do_search_one_way: token = auth()
HelperAuthOk ==
    /\ pc = "helper_auth"
    /\ fetches' = fetches + 1
    /\ token' = fetches + 1
    /\ pc' = "date_range"
    /\ UNCHANGED <<mode, csv, args, date_range, order, k, cur, ci, cres, answer, result,
                   todo, counters, dir, fs, gets, searched, written, prev, crashAt>>
    /\ UNCHANGED svars

HelperAuthFails ==
    /\ pc = "helper_auth"
    /\ pc' = "crashed"
    /\ crashAt' = "helper_auth"
    /\ UNCHANGED <<mode, csv, args, token, fetches, date_range, order, k, cur, ci, cres,
                   answer, result, todo, counters, dir, fs, gets, searched, written, prev>>
    /\ UNCHANGED svars

\* _do_search_one_way: date_range = _date_range(start_date, duration)
DateRange ==
    /\ pc = "date_range"
    /\ LET r == _date_range(args.start_date, args.duration)
       IN  IF r.raised
           THEN /\ pc' = "crashed" /\ crashAt' = "date_range"
                /\ UNCHANGED <<date_range, order>>
           ELSE /\ pc' = "loop" /\ UNCHANGED crashAt
                /\ date_range' = r.dates
                /\ order' \in Perms(Len(r.dates))
    /\ UNCHANGED <<mode, csv, args, token, fetches, k, cur, ci, cres, answer, result,
                   todo, counters, dir, fs, gets, searched, written, prev>>
    /\ UNCHANGED svars

\* the number of turns of the functor's loop
Turns == IF mode = "one_way" THEN Len(args.destinations) ELSE Len(csv)

\* the SearchRequest(...) call of turn k: [raised, req]
RequestOfTurn ==
    IF mode = "one_way"
    THEN [raised |-> PostInit([j \in 1..Len(date_range) |->
                                 <<date_range[order[j]], <<>>>>]).raised,
          req |-> [flight_from |-> Origin,
                   flight_to |-> args.destinations[k],
                   flight_dates |-> [j \in 1..Len(date_range) |->
                                        <<date_range[order[j]], <<>>>>]]]
    ELSE IF Len(csv[k]) < 4
         THEN [raised |-> TRUE, req |-> NoReq]
         ELSE [raised |-> PostInit(<< <<csv[k][3], csv[k][4]>> >>).raised,
               req |-> [flight_from |-> csv[k][1],
                        flight_to |-> csv[k][2],
                        flight_dates |-> << <<csv[k][3], csv[k][4]>> >>]]

\* a turn of the functor's loop begins: the request is constructed
LoopTurn ==
    /\ pc = "loop"
    /\ k <= Turns
    /\ IF RequestOfTurn.raised
       THEN /\ pc' = "crashed" /\ crashAt' = "row"
            /\ UNCHANGED <<cur, ci, cres, answer>>
       ELSE /\ pc' = "search" /\ UNCHANGED crashAt
            /\ cur' = RequestOfTurn.req
            /\ ci' = 1
            /\ cres' = <<>>
            /\ answer' \in {"data", "nodata"}
    /\ UNCHANGED <<mode, csv, args, token, fetches, date_range, order, k, result, todo,
                   counters, dir, fs, gets, searched, written, prev>>
    /\ UNCHANGED svars

\* search_offers called by the functor: one turn of its loop, the GET included
Get ==
    /\ pc = "search"
    /\ ci <= Len(cur.flight_dates)
    /\ \E response \in DriverResponses(answer, cur.flight_to, cur.flight_dates[ci][1]) :
          /\ gets' = Append(gets, [flight_to |-> cur.flight_to,
                                   departureDate |-> cur.flight_dates[ci][1],
                                   token |-> token])
          /\ IF response.kind = "raise"
             THEN /\ pc' = "crashed" /\ crashAt' = "get"
                  /\ UNCHANGED <<ci, cres>>
             ELSE /\ UNCHANGED <<pc, crashAt>>
                  /\ ci' = ci + 1
                  /\ cres' = OffersAfterResponse(cres, response, None)
    /\ UNCHANGED <<mode, csv, args, token, fetches, date_range, order, k, cur, answer,
                   result, todo, counters, dir, fs, searched, written, prev>>
    /\ UNCHANGED svars

\* the functor writes the file of a request as soon as its search returns
SearchReturn_mut ==
    /\ pc = "search"
    /\ ci > Len(cur.flight_dates)
    /\ result' = DictSet(result, RequestKey(cur), cres)
    /\ searched' = Append(searched, [key |-> RequestKey(cur), offers |-> cres])
    /\ fs' = { f \in fs : f.name # FileName(RequestKey(cur), 1) }
             \cup { [name |-> FileName(RequestKey(cur), 1),
                     content |-> RawEntries(cres), stale |-> FALSE] }
    /\ written' = written \cup { FileName(RequestKey(cur), 1) }
    /\ k' = k + 1
    /\ pc' = "loop"
    /\ UNCHANGED <<mode, csv, args, token, fetches, date_range, order, cur, ci, cres,
                   answer, todo, counters, dir, gets, prev, crashAt>>
    /\ UNCHANGED svars

\* search_offers returns and the functor stores the list: result[request] = ...
SearchReturn ==
    /\ pc = "search"
    /\ ci > Len(cur.flight_dates)
    /\ result' = DictSet(result, RequestKey(cur), cres)
    /\ searched' = Append(searched, [key |-> RequestKey(cur), offers |-> cres])
    /\ k' = k + 1
    /\ pc' = "loop"
    /\ UNCHANGED <<mode, csv, args, token, fetches, date_range, order, cur, ci, cres,
                   answer, todo, counters, dir, fs, gets, written, prev, crashAt>>
    /\ UNCHANGED svars

\* the functor returns its dict to do_search
FunctorReturn ==
    /\ pc = "loop"
    /\ k > Turns
    /\ pc' = "write"
    /\ todo' = 1
    /\ UNCHANGED <<mode, csv, args, token, fetches, date_range, order, k, cur, ci, cres,
                   answer, result, counters, dir, fs, gets, searched, written, prev,
                   crashAt>>
    /\ UNCHANGED svars

\* do_search: one turn of the loop over the dict: print, count, write the file
WriteFile ==
    /\ pc = "write"
    /\ todo <= Len(result)
    /\ LET request == result[todo].key
           offers  == result[todo].val
           counter == DictGet(counters, request, 0) + 1
           name    == FileName(request, counter)
       IN  /\ counters' = DictSet(counters, request, counter)
           /\ fs' = { f \in fs : f.name # name }
                    \cup { [name |-> name, content |-> RawEntries(offers),
                            stale |-> FALSE] }
           /\ written' = written \cup { name }
    /\ todo' = todo + 1
    /\ UNCHANGED <<pc, mode, csv, args, token, fetches, date_range, order, k, cur, ci,
                   cres, answer, result, dir, gets, searched, prev, crashAt>>
    /\ UNCHANGED svars

\* do_search returns and the process ends
Finish ==
    /\ pc = "write"
    /\ todo > Len(result)
    /\ pc' = "done"
    /\ UNCHANGED <<mode, csv, args, token, fetches, date_range, order, k, cur, ci, cres,
                   answer, result, todo, counters, dir, fs, gets, searched, written,
                   prev, crashAt>>
    /\ UNCHANGED svars

\* the process ends, by returning from main() or by an uncaught exception:
\* its memory is gone, the directory and its files stay
Exit ==
    /\ pc \in {"done", "crashed"}
    /\ pc' = "idle" /\ mode' = "none" /\ csv' = <<>> /\ args' = NoArgs
    /\ token' = 0 /\ fetches' = 0 /\ date_range' = <<>> /\ order' = <<>>
    /\ k' = 1 /\ cur' = NoReq /\ ci' = 1 /\ cres' = <<>> /\ answer' = ""
    /\ result' = <<>> /\ todo' = 1 /\ counters' = <<>> /\ gets' = <<>>
    /\ searched' = <<>> /\ written' = {} /\ crashAt' = ""
    /\ prev' = (pc = "done" /\ written # {})
    /\ UNCHANGED <<dir, fs>>
    /\ UNCHANGED svars

Next ==
    \/ Start \/ AuthOk \/ AuthFails \/ RecreateDir
    \/ CallBatch \/ CallOneWay
    \/ HelperAuthOk \/ HelperAuthFails \/ DateRange
    \/ LoopTurn \/ Get \/ SearchReturn \/ FunctorReturn
    \/ WriteFile \/ Finish \/ Exit

Spec == Init /\ [][Next]_vars

\* ========================================================================
\* Properties
\* ========================================================================

\* a round-trip pair of two calendar dates whose return is not after its
\* departure
LatePair(p) ==
    /\ p[2] # <<>>
    /\ ValidDate(p[1]) /\ ValidDate(p[2])
    /\ ToOrdinal(p[2]) <= ToOrdinal(p[1])

\* a round-trip pair that is not two calendar dates in order
InvalidPair(p) ==
    /\ p[2] # <<>>
    /\ ~(ValidDate(p[1]) /\ ValidDate(p[2]) /\ ToOrdinal(p[2]) > ToOrdinal(p[1]))

\* the (departure, duration) list of a batch whose invalid pairs are dropped
RECURSIVE DurationsOfValid(_)
DurationsOfValid(pairs) ==
    IF pairs = <<>> THEN <<>>
    ELSE LET p == Head(pairs)
         IN  IF InvalidPair(p) THEN DurationsOfValid(Tail(pairs))
             ELSE << <<p[1], IF p[2] = <<>> THEN <<>>
                             ELSE <<ToOrdinal(p[2]) - ToOrdinal(p[1])>> >> >>
                  \o DurationsOfValid(Tail(pairs))

\* C1: when a batch holds a round-trip pair whose return date is equal to or
\* earlier than its departure date, _calculate_duration gives 0 for it, the
\* request is still constructed without an exception, and
\* flight_date_durations holds every other pair.
C1_LatePairDropped ==
    (spc # "new" /\ \E j \in 1..Len(flight_dates) : LatePair(flight_dates[j]))
    => /\ \A j \in 1..Len(flight_dates) :
            LatePair(flight_dates[j])
            => _calculate_duration(flight_dates[j][1], flight_dates[j][2]) = 0
       /\ spc # "raised"
       /\ obj.flight_date_durations = DurationsOfValid(flight_dates)

Ascending(data) ==
    \A a, b \in 1..Len(data) : a < b => data[a].grandTotal <= data[b].grandTotal

\* the entries of the bodies received that are priced at or below limit, in
\* the order received
RECURSIVE AtOrBelow(_, _)
AtOrBelow(data, limit) ==
    IF data = <<>> THEN <<>>
    ELSE (IF Head(data).grandTotal <= limit
          THEN <<[price |-> Head(data).grandTotal, raw_entry |-> Head(data)]>>
          ELSE <<>>)
         \o AtOrBelow(Tail(data), limit)

RECURSIVE AllAtOrBelow(_, _)
AllAtOrBelow(responses, limit) ==
    IF responses = <<>> THEN <<>>
    ELSE AtOrBelow(Head(responses).data, limit) \o AllAtOrBelow(Tail(responses), limit)

\* C2: with max_price set to any value other than None and every response
\* in ascending price order, search_offers returns exactly the entries priced
\* at or below max_price, in API order, date pair after date pair.
C2_StopsAtFirstOverPrice ==
    (/\ spc = "offers_done"
     /\ max_price # None
     /\ \A j \in 1..Len(got) : Ascending(got[j].data))
    => search_results = AllAtOrBelow(got, max_price[1])

\* the batch holds a one-way pair and a round-trip pair
Mixed(pairs) ==
    /\ \E j \in 1..Len(pairs) : pairs[j][2] = <<>>
    /\ \E j \in 1..Len(pairs) : pairs[j][2] # <<>>

\* C3: search_cheapest on a request whose batch is mixed returns the empty
\* list, prints a message, does not raise and issues no request.
C3_MixedBatchRejected ==
    (Mixed(flight_dates) /\ spc \in {"cheapest_done", "cheapest_failed"})
    => /\ spc = "cheapest_done"
       /\ search_results = <<>>
       /\ calls = 0
       /\ stderr = 1

C3_Witness ==
    /\ spc = "cheapest_done"
    /\ Mixed(flight_dates)
    /\ Len(flight_dates) = 2

\* C4: a body without 'data' gives no results and no error: search_cheapest
\* returns the empty list; in search_offers the results collected so far are
\* kept, the loop goes on to the next date pair, and the search returns only
\* after every date pair has been queried.
C4_NoDataIsNoResult ==
    [][ /\ (calls' = calls + 1 /\ got'[Len(got')].kind = "nodata")
           => IF spc' = "cheapest_done"
              THEN search_results' = <<>>
              ELSE /\ spc' = "offers"
                   /\ search_results' = search_results
                   /\ si' = si + 1
        /\ (spc' = "offers_done")
           => /\ Len(got) = Len(flight_dates)
              /\ search_results' = search_results ]_vars

C4_Witness ==
    /\ spc = "offers_done"
    /\ Len(got) = 3
    /\ got[1].kind = "data" /\ got[1].data # <<>>
    /\ got[2].kind = "nodata"
    /\ got[3].kind = "data" /\ got[3].data # <<>>
    /\ Len(search_results) = Len(got[1].data) + Len(got[3].data)

\* C5: when a run completes after an earlier completed run, last_search
\* holds exactly the files this run wrote and none of an earlier run.
C5_OnlyThisRunsFiles ==
    (pc = "done")
    => /\ \A f \in fs : ~f.stale /\ f.name \in written
       /\ \A name \in written : \E f \in fs : f.name = name

C5_Witness ==
    /\ pc = "done"
    /\ prev
    /\ written # {}

\* the calendar day after d
NextDay(d) ==
    IF d[3] < DaysInMonth(d[1], d[2]) THEN <<d[1], d[2], d[3] + 1>>
    ELSE IF d[2] < 12 THEN <<d[1], d[2] + 1, 1>>
    ELSE <<d[1] + 1, 1, 1>>

\* the number of GET requests of this run for a destination and a date
Queries(flight_to, departureDate) ==
    Cardinality({ g \in 1..Len(gets) :
                    /\ gets[g].flight_to = flight_to
                    /\ gets[g].departureDate = departureDate })

\* the listed day counts and destinations were all queried, once each
QueriedOncePerDestination ==
    /\ Len(gets) = args.duration * Len(args.destinations)
    /\ \A d \in Destinations, i \in 1..Len(date_range) :
          Queries(d, date_range[i]) =
              Cardinality({ j \in 1..Len(args.destinations) :
                              args.destinations[j] = d })

\* date_range is day_count dates, the start date first, each next one the
\* following calendar day
ConsecutiveFromStart ==
    /\ Len(date_range) = args.duration
    /\ (args.duration > 0 => date_range[1] = args.start_date)
    /\ \A i \in 1..(Len(date_range) - 1) : date_range[i + 1] = NextDay(date_range[i])

\* the functor is past its call of _date_range, which returned or raised
PastDateRange ==
    \/ pc \in {"loop", "search", "write", "done"}
    \/ (pc = "crashed" /\ crashAt \in {"date_range", "row", "get"})

\* C6 as stated: for every well-formed start date and every day count
\* n >= 0 _date_range returns n dates, the start date first and each next one
\* the following calendar day; and each of these dates is queried once per
\* destination by a one_way run whose searches all return.
C6_EveryStartEveryCount ==
    (mode = "one_way" /\ ValidDate(args.start_date) /\ PastDateRange)
    => /\ crashAt # "date_range"
       /\ ConsecutiveFromStart
       /\ (pc \in {"write", "done"}) => QueriedOncePerDestination

\* n days from start do not pass 9999-12-31, the last day a date can hold
RECURSIVE RangeFits(_, _)
RangeFits(start, n) ==
    \/ n <= 1
    \/ (start # <<9999, 12, 31>> /\ RangeFits(NextDay(start), n - 1))

\* C6 amended: for a well-formed start date and a day count n >= 0 whose
\* last day is not after 9999-12-31, _date_range returns n dates, the start
\* date first and each next one the following calendar day, and once the
\* one_way functor has returned each of these dates has been queried once for
\* each destination listed; when the range passes 9999-12-31, _date_range
\* raises, the run ends there and no search request is issued.
C6_DateRangeAndQueries ==
    (mode = "one_way" /\ ValidDate(args.start_date))
    => IF RangeFits(args.start_date, args.duration)
       THEN /\ crashAt # "date_range"
            /\ PastDateRange => ConsecutiveFromStart
            /\ (pc \in {"write", "done"}) => QueriedOncePerDestination
       ELSE /\ pc \in {"helper_auth", "date_range", "crashed"}
            /\ (pc = "crashed") => crashAt \in {"helper_auth", "date_range"}
            /\ gets = <<>>
            /\ written = {}

C6_Witness ==
    /\ pc = "done"
    /\ mode = "one_way"
    /\ args.start_date = <<2024, 1, 1>>
    /\ args.duration = 3
    /\ date_range = << <<2024, 1, 1>>, <<2024, 1, 2>>, <<2024, 1, 3>> >>
    /\ args.destinations = <<"BBB", "CCC">>
    /\ Len(gets) = 6

\* C7: after a completed run the directory holds, for every request that was
\* searched, a file of this run for its origin and destination whose content
\* is the raw entry list returned for that request.
C7_EveryRequestHasItsFile ==
    (pc = "done")
    => \A j \in 1..Len(searched) :
          \E f \in fs :
             /\ ~f.stale
             /\ f.name[1] = searched[j].key.flight_from
             /\ f.name[2] = searched[j].key.flight_to
             /\ f.content = RawEntries(searched[j].offers)

\* C8 as stated: when the search of a later request terminates the process,
\* the file of every request searched before it is in the directory.
C8_EarlierFilesAlreadyWritten ==
    (pc = "crashed" /\ crashAt = "get")
    => \A j \in 1..Len(searched) :
          \E f \in fs :
             /\ ~f.stale
             /\ f.name[1] = searched[j].key.flight_from
             /\ f.name[2] = searched[j].key.flight_to

\* C8 amended: every search of the run has returned before the first file
\* is written, and a run that a search or a request's construction
\* terminates has written no file and leaves the directory empty.
C8_AllSearchesBeforeAnyWrite ==
    /\ (written # {}) => (pc \in {"write", "done"} /\ Len(searched) = Turns)
    /\ (pc = "crashed" /\ crashAt \in {"get", "row"}) => (written = {} /\ fs = {})

C8_Witness ==
    /\ pc = "crashed"
    /\ crashAt = "get"
    /\ Len(searched) >= 1
    /\ searched[1].offers # <<>>
    /\ fs = {}

\* C9 as stated: after a run that has started, however it ends, no file of
\* an earlier run is in the directory.
C9_NoEarlierFileAfterAnyRun ==
    (pc \in {"done", "crashed"}) => \A f \in fs : ~f.stale

\* C9 amended: after a run whose token exchange in do_search succeeded,
\* whether it completes or raises at any later step, no file of an earlier
\* run is in the directory; a run that raises at that token exchange has
\* added no file to it.
C9_DiscardedOnceAuthenticated ==
    /\ (pc \in {"done", "crashed"} /\ crashAt # "auth") => \A f \in fs : ~f.stale
    /\ (pc = "crashed" /\ crashAt = "auth") => \A f \in fs : f.stale

C9_Witness ==
    /\ pc = "crashed"
    /\ crashAt \in {"helper_auth", "row", "get"}
    /\ prev
    /\ fs = {}

\* C10 as stated: the token is fetched exactly once in a run, and every
\* search request carries it.
C10_TokenFetchedOnce ==
    (pc \in {"loop", "search", "write", "done"})
    => /\ fetches = 1
       /\ \A g \in 1..Len(gets) : gets[g].token = 1

\* C10 amended: a run fetches the token once in batch mode and twice in
\* one_way mode (do_search, then _do_search_one_way); every fetch comes before
\* the first search request, and every search request carries the token
\* fetched last.
C10_TokenPerMode ==
    /\ (pc \in {"loop", "search", "write", "done"} \/ gets # <<>>)
       => /\ fetches = (IF mode = "one_way" THEN 2 ELSE 1)
          /\ token = fetches
    /\ \A g \in 1..Len(gets) : gets[g].token = fetches

C10_Witness ==
    /\ pc = "done"
    /\ mode = "one_way"
    /\ fetches = 2
    /\ Len(gets) >= 2
    /\ \A g \in 1..Len(gets) : gets[g].token = 2

====
